---- MODULE Spec2Model ----
(***************************************************************************)
(* Model of MPCController (mpc_controller.py): the finite-horizon solve    *)
(* and the receding-horizon simulate loop.                                 *)
(*                                                                         *)
(* Vectors are tuples of integers, matrices are tuples of rows.  The       *)
(* decision variables of the quadratic program range over an integer grid  *)
(* (XGrid, UGrid); the convex solver is modelled by what it is asked for:  *)
(* a minimiser of the cost over the points that satisfy the constraint     *)
(* list built by solve, together with the terminal status it reports.      *)
(* Python's None is the empty tuple.                                       *)
(*                                                                         *)
(* Two further programs of the repository are modelled beside it, each     *)
(* with its own variables and specification: ProgramMonitor                *)
(* (program_monitor.py), a caller and the monitor-loop threads it starts,  *)
(* and PDFReader.read_pdf (pdf_reader.py) with the script that reports     *)
(* its result (test_pdf_reader.py).                                        *)
(***************************************************************************)
EXTENDS Integers, Sequences, FiniteSets, TLC

\* ------------------------------------------------------------------ bounds
MaxX == 2        \* state components of the grid lie in -MaxX..MaxX
MaxU == 1        \* input components of the grid lie in -MaxU..MaxU
MaxT == 2        \* simulation lengths 0..MaxT
MaxL == 2        \* supplied reference trajectories have 1..MaxL samples
MaxN == 2        \* prediction horizons 1..MaxN
MaxThreads == 2  \* monitor-loop threads started in one run
MaxH == 2        \* entries of metrics_history
MaxPages == 1    \* pages of a PDF file

\* np.inf (lines 36-39): larger than every number of the grid
Inf == 1000

None == <<>>

\* ------------------------------------------------------------ linear algebra
RECURSIVE SumTo(_, _)
SumTo(f, k) == IF k = 0 THEN 0 ELSE f[k] + SumTo(f, k - 1)

\* v . w, summed from the last component down
RECURSIVE DotTo(_, _, _)
DotTo(v, w, k) == IF k = 0 THEN 0 ELSE v[k] * w[k] + DotTo(v, w, k - 1)

Dot(v, w) == DotTo(v, w, Len(v))

\* M @ v
MatVec(M, v) == [i \in 1..Len(M) |-> Dot(M[i], v)]

VecAdd(v, w) == [i \in 1..Len(v) |-> v[i] + w[i]]

VecSub(v, w) == [i \in 1..Len(v) |-> v[i] - w[i]]

\* elementwise v >= w and v <= w, as cvxpy constraints read them
VecGe(v, w) == \A i \in 1..Len(v) : v[i] >= w[i]

VecLe(v, w) == \A i \in 1..Len(v) : v[i] <= w[i]

\* cp.quad_form(v, P) = v' P v
quad_form(v, P) == Dot(v, MatVec(P, v))

\* np.zeros(c) and np.zeros((r, c))
ZeroVec(c) == [j \in 1..c |-> 0]

Zeros(r, c) == [i \in 1..r |-> ZeroVec(c)]

\* c * np.ones(k)
Ones(c, k) == [j \in 1..k |-> c]

\* all integer vectors of length k with components in -b..b
RECURSIVE Grid(_, _)
Grid(k, b) ==
    IF k = 0 THEN {<<>>}
    ELSE {Append(v, c) : v \in Grid(k - 1, b), c \in (-b)..b}

XGrid(n) == Grid(n, MaxX)

UGrid(m) == Grid(m, MaxU)

\* ------------------------------------------------------------- constructor
\* a constructor that gives an omitted bound the value zero
MPCController_ZeroDefaults(A, B, Q, R, N, x_min, x_max, u_min, u_max) ==
    LET n == Len(A)
        m == Len(B[1])
    IN  [A |-> A, B |-> B, Q |-> Q, R |-> R, N |-> N, n |-> n, m |-> m,
         x_min |-> IF x_min # None THEN x_min ELSE ZeroVec(n),
         x_max |-> IF x_max # None THEN x_max ELSE ZeroVec(n),
         u_min |-> IF u_min # None THEN u_min ELSE ZeroVec(m),
         u_max |-> IF u_max # None THEN u_max ELSE ZeroVec(m)]

\* MPCController.__init__
MPCController(A, B, Q, R, N, x_min, x_max, u_min, u_max) ==
    LET n == Len(A)
        m == Len(B[1])
    IN  [A |-> A, B |-> B, Q |-> Q, R |-> R, N |-> N, n |-> n, m |-> m,
         x_min |-> IF x_min # None THEN x_min ELSE Ones(-Inf, n),
         x_max |-> IF x_max # None THEN x_max ELSE Ones(Inf, n),
         u_min |-> IF u_min # None THEN u_min ELSE Ones(-Inf, m),
         u_max |-> IF u_max # None THEN u_max ELSE Ones(Inf, m)]

\* ------------------------------------------------------------------- solve
\* a default reference of ones instead of zeros
RefOrZeros_Ones(ctl, ref) ==
    IF ref = None THEN [i \in 1..(ctl.N + 1) |-> Ones(1, ctl.n)] ELSE ref

\* line 52-53: the zero reference when x_ref is omitted
RefOrZeros(ctl, ref) ==
    IF ref = None THEN Zeros(ctl.N + 1, ctl.n) ELSE ref

\* lines 60-64: the cost of the decision variables x (N+1 states), u (N inputs)
RECURSIVE StageCosts(_, _, _, _, _)
StageCosts(ctl, x, u, ref, k) ==
    IF k = 0 THEN 0
    ELSE StageCosts(ctl, x, u, ref, k - 1)
         + quad_form(VecSub(x[k], ref[k]), ctl.Q)
         + quad_form(u[k], ctl.R)

\* a cost without the terminal term of line 64
Cost_NoTerminal(ctl, x, u, ref) == StageCosts(ctl, x, u, ref, ctl.N)

Cost(ctl, x, u, ref) ==
    StageCosts(ctl, x, u, ref, ctl.N)
    + quad_form(VecSub(x[ctl.N + 1], ref[ctl.N + 1]), ctl.Q)

\* a first predicted state that is not tied to x0: each component is moved
\* into [-1, 1]
ConInit_Clamped(xi) ==
    [i \in 1..Len(xi) |-> IF xi[i] > 1 THEN 1 ELSE IF xi[i] < -1 THEN -1 ELSE xi[i]]

\* line 67: x[0] == x0 leaves one value for x[0]
ConInit(xi) == xi

\* a dynamics constraint that leaves out the system matrix
ConDynamics_NoA(ctl, xk, uk) == VecAdd(xk, MatVec(ctl.B, uk))

\* line 70: x[k + 1] == A @ x[k] + B @ u[k] leaves one value for x[k + 1]
\* once x[k] and u[k] are chosen
ConDynamics(ctl, xk, uk) ==
    VecAdd(MatVec(ctl.A, xk), MatVec(ctl.B, uk))

\* state bounds applied by clamping: a state outside the box is moved onto
\* its nearest bound, so every state passes
ConStateBox_Clamped(ctl, xk) == TRUE

\* lines 71-72 and 76-77: x[k] >= x_min, x[k] <= x_max
ConStateBox(ctl, xk) == VecGe(xk, ctl.x_min) /\ VecLe(xk, ctl.x_max)

\* input bounds with the lower bound left out
ConInputBox_NoLower(ctl, uk) == VecLe(uk, ctl.u_max)

\* lines 73-74: u[k] >= u_min, u[k] <= u_max
ConInputBox(ctl, uk) == VecGe(uk, ctl.u_min) /\ VecLe(uk, ctl.u_max)

\* The points x[0..k], u[0..k-1] that satisfy line 67 and the constraints
\* appended by loop iterations 0..k-1 (lines 69-74), inputs on the grid.
RECURSIVE Partial(_, _, _)
Partial(ctl, xi, k) ==
    IF k = 0
    THEN {[x |-> <<ConInit(xi)>>, u |-> <<>>]}
    ELSE LET P == {p \in Partial(ctl, xi, k - 1) : ConStateBox(ctl, p.x[k])}
             U == {uk \in UGrid(ctl.m) : ConInputBox(ctl, uk)}
         IN  {[x |-> Append(p.x, ConDynamics(ctl, p.x[k], uk)),
               u |-> Append(p.u, uk)] : p \in P, uk \in U}

\* a constraint list without the terminal state bounds of lines 76-77
Feasible_NoTerminalBox(ctl, xi) == Partial(ctl, xi, ctl.N)

\* lines 67-77: the feasible set of the whole constraint list
Feasible(ctl, xi) ==
    {p \in Partial(ctl, xi, ctl.N) : ConStateBox(ctl, p.x[ctl.N + 1])}

\* a solver that stops at a feasible point without minimising
Minimizers_Feasible(ctl, xi, ref) == Feasible(ctl, xi)

\* line 80: cp.Minimize(cost) over the constraints
Minimizers(ctl, xi, ref) ==
    LET F == Feasible(ctl, xi)
        c == [p \in F |-> Cost(ctl, p.x, p.u, ref)]
        costs == {c[p] : p \in F}
        least == CHOOSE v \in costs : \A w \in costs : v <= w
    IN  IF F = {} THEN {} ELSE {p \in F : c[p] = least}

OPTIMAL == "optimal"

\* line 81: problem.solve().  The solver reports a terminal status and, with
\* it, the values of the variables.  A feasible problem ends "optimal", or
\* "optimal_inaccurate" when the solver stops short of its tolerances; an
\* infeasible one ends "infeasible" or "infeasible_inaccurate".  The cost is
\* bounded below, so "unbounded" is never reported.
ProblemSolve(ctl, xi, ref) ==
    LET M == Minimizers(ctl, xi, ref)
    IN  IF M = {}
        THEN {[status |-> s, x |-> None, u |-> None] :
                 s \in {"infeasible", "infeasible_inaccurate"}}
        ELSE LET p == CHOOSE q \in M : TRUE
             IN  {[status |-> s, x |-> p.x, u |-> p.u] :
                     s \in {OPTIMAL, "optimal_inaccurate"}}

\* a status test that lets an inaccurate optimum through
NotOptimal_AcceptsInaccurate(status) ==
    status # OPTIMAL /\ status # "optimal_inaccurate"

\* line 83: problem.status != cp.OPTIMAL
NotOptimal(status) == status # OPTIMAL

\* a return value that drops the first predicted state (x.value[1:])
SolveOutcome_DropsFirst(prob) ==
    IF NotOptimal(prob.status)
    THEN [raised |-> <<[kind |-> "ValueError", status |-> prob.status]>>,
          ret |-> None]
    ELSE [raised |-> None, ret |-> <<prob.u[1], Tail(prob.x)>>]

\* lines 83-87: what solve hands back for a solved problem: the ValueError
\* carrying the status, or the pair (u.value[0], x.value)
SolveOutcome(prob) ==
    IF NotOptimal(prob.status)
    THEN [raised |-> <<[kind |-> "ValueError", status |-> prob.status]>>,
          ret |-> None]
    ELSE [raised |-> None, ret |-> <<prob.u[1], prob.x>>]

\* ---------------------------------------------------------------- simulate
\* lines 109-113: the reference window of step t (x_ref supplied).
\* x_ref[t:min(t + N + 1, len(x_ref))] is empty when t >= len(x_ref).
RefSlice(ctl, ref, step) ==
    LET hi == IF step + ctl.N + 1 < Len(ref) THEN step + ctl.N + 1 ELSE Len(ref)
    IN  IF step >= hi THEN <<>> ELSE SubSeq(ref, step + 1, hi)

\* np.tile(last, (k, 1))
Tile(last, k) == [i \in 1..k |-> last]

\* padding with zero samples instead of the last sample
PadWindow_Zeros(ctl, slice) ==
    IF Len(slice) < ctl.N + 1
    THEN slice \o Tile(ZeroVec(ctl.n), ctl.N + 1 - Len(slice))
    ELSE slice

\* lines 110-113: pad with the last sample of the slice
PadWindow(ctl, slice) ==
    IF Len(slice) < ctl.N + 1
    THEN slice \o Tile(slice[Len(slice)], ctl.N + 1 - Len(slice))
    ELSE slice

\* an inputs array with one row too many
NewInputs_OneMore(ctl, len) == Zeros(len + 1, ctl.m)

\* line 101 and line 102
NewStates(ctl, len) == Zeros(len + 1, ctl.n)

NewInputs(ctl, len) == Zeros(len, ctl.m)

\* a state update that leaves out the system matrix
StepDynamics_NoA(ctl, x, u) == VecAdd(x, MatVec(ctl.B, u))

\* line 121: A @ states[t] + B @ u_opt
StepDynamics(ctl, x, u) == VecAdd(MatVec(ctl.A, x), MatVec(ctl.B, u))

\* numpy's broadcasting rule for two vectors of lengths a and b
Broadcasts(a, b) == a = b \/ a = 1 \/ b = 1

\* Lines 59-77 build the cost and the constraints from the controller's
\* fields, and the library checks the dimensions of each expression as it is
\* built: quad_form wants a square matrix of the vector's size (lines 62-64,
\* Exception), A @ x[k] wants A to have n columns and the sum with B @ u[k]
\* and the comparisons with the bounds want broadcastable lengths (lines
\* 70-77, ValueError).  None when every expression can be built.
BuildError(ctl) ==
    IF Len(ctl.Q) # ctl.n \/ Len(ctl.Q[1]) # ctl.n
         \/ Len(ctl.R) # ctl.m \/ Len(ctl.R[1]) # ctl.m
    THEN <<[kind |-> "Exception", status |-> ""]>>
    ELSE IF Len(ctl.A[1]) # ctl.n
              \/ ~Broadcasts(Len(ctl.B), ctl.n)
              \/ ~Broadcasts(Len(ctl.x_min), ctl.n)
              \/ ~Broadcasts(Len(ctl.x_max), ctl.n)
              \/ ~Broadcasts(Len(ctl.u_min), ctl.m)
              \/ ~Broadcasts(Len(ctl.u_max), ctl.m)
         THEN <<[kind |-> "ValueError", status |-> ""]>>
         ELSE None

\* solve(x0, x_ref), lines 52-87: every way the call can end, with the
\* solver's problem record beside it
solve(ctl, xi, ref) ==
    IF BuildError(ctl) # None
    THEN {[problem |-> None, raised |-> BuildError(ctl), ret |-> None]}
    ELSE {[problem |-> prob, raised |-> SolveOutcome(prob).raised,
           ret |-> SolveOutcome(prob).ret] :
             prob \in ProblemSolve(ctl, xi, RefOrZeros(ctl, ref))}

\* ------------------------------------------------------------------ inputs
\* The systems a caller constructs controllers for: a scalar integrator, a
\* double integrator (position, velocity) as in example_double_integrator
\* with dt = 1, and a scalar integrator driven by two inputs.
Systems ==
    {[A |-> << <<1>> >>, B |-> << <<1>> >>,
      Q |-> << <<1>> >>, R |-> << <<1>> >>],
     [A |-> << <<1, 1>>, <<0, 1>> >>, B |-> << <<0>>, <<1>> >>,
      Q |-> << <<2, 0>>, <<0, 1>> >>, R |-> << <<1>> >>],
     [A |-> << <<1>> >>, B |-> << <<1, 2>> >>,
      Q |-> << <<1>> >>, R |-> << <<1, 0>>, <<0, 1>> >>]}

\* The bound arguments: all omitted; states in [-1, 1] with inputs in [0, 1];
\* a state box whose lower bound lies above its upper bound; and an input
\* box whose lower bound lies above its upper bound.
BoundArgs(n, m) ==
    {[x_min |-> None, x_max |-> None, u_min |-> None, u_max |-> None],
     [x_min |-> Ones(-1, n), x_max |-> Ones(1, n),
      u_min |-> Ones(0, m), u_max |-> Ones(1, m)],
     [x_min |-> Ones(1, n), x_max |-> Ones(-1, n),
      u_min |-> None, u_max |-> None],
     [x_min |-> None, x_max |-> None,
      u_min |-> Ones(1, m), u_max |-> Ones(0, m)]}

\* Controllers of every horizon 1..MaxN for the single-input systems, and of
\* horizon 1 for the two-input system.
Controllers ==
    UNION {{MPCController(s.A, s.B, s.Q, s.R, N,
                          b.x_min, b.x_max, b.u_min, b.u_max) :
               N \in IF Len(s.B[1]) = 1 THEN 1..MaxN ELSE {1},
               b \in BoundArgs(Len(s.A), Len(s.B[1]))} :
           s \in Systems}

\* Constructor calls with non-conforming arguments, each of a kind that the
\* expressions of solve reject: bound vectors of length 3 for the double
\* integrator, a 1 x 2 system matrix, a 2 x 2 state weight and a 2 x 2 input
\* weight for the scalar integrator.
Misconfigured ==
    {MPCController(<< <<1, 1>>, <<0, 1>> >>, << <<0>>, <<1>> >>,
                   << <<2, 0>>, <<0, 1>> >>, << <<1>> >>, 1,
                   Ones(-1, 3), Ones(1, 3), None, None),
     MPCController(<< <<1, 1>> >>, << <<1>> >>, << <<1>> >>, << <<1>> >>, 1,
                   None, None, None, None),
     MPCController(<< <<1>> >>, << <<1>> >>, << <<1, 0>>, <<0, 1>> >>,
                   << <<1>> >>, 1, None, None, None, None),
     MPCController(<< <<1>> >>, << <<1>> >>, << <<1>> >>,
                   << <<1, 0>>, <<0, 1>> >>, 1, None, None, None, None)}

\* Step references as in example_double_integrator (lines 154-155): len
\* samples, zero before index j and one in every component from j on.
StepRef(n, len, j) == [i \in 1..len |-> IF i <= j THEN ZeroVec(n) ELSE Ones(1, n)]

StepRefs(n, len) == {StepRef(n, len, j) : j \in 0..len}

\* the x_ref argument of simulate: omitted, or 1..MaxL samples
RefTrajectories(ctl) ==
    {None} \cup UNION {StepRefs(ctl.n, L) : L \in 1..MaxL}

\* the x_ref argument of a direct solve: omitted, or N+1 samples
RefWindows(ctl) == {None} \cup StepRefs(ctl.n, ctl.N + 1)

\* ------------------------------------------------------------------- state
VARIABLES
    self,          \* the controller object (fields set by __init__)
    pc,            \* where the caller's current call stands
    op,            \* the method called last: "none", "solve", "simulate"
    x0, T, x_ref,  \* the arguments of that call
    t,             \* simulate: the loop index
    states,        \* simulate: the states array
    inputs,        \* simulate: the inputs array
    ref_horizon,   \* simulate: the window of the current step
    u_opt,         \* simulate: the input returned by the current step's solve
    problem,       \* the cvxpy problem of the last solve: status and values
    raised,        \* None, or <<e>> for the exception e that reached the caller
    result,        \* None, or the value the call returned
    calls,         \* simulate: the solve calls made so far, in order, each
                   \* with its step, arguments, solver status and return value
    writes,        \* simulate: the array assignments made so far, in order
    memo           \* what the caller has kept of an earlier solve: None, or
                   \* its arguments, the input it returned, and whether
                   \* another call has been made since

\* ProgramMonitor (program_monitor.py)
VARIABLES
    monitoring,       \* self.monitoring
    monitor_thread,   \* self.monitor_thread: None, or <<i>> for the thread
                      \* object whose place in threads is i
    metrics_history,  \* self.metrics_history
    threads,          \* the monitor-loop threads started so far: where each
                      \* one stands in _monitor_loop, or "exited"
    caller,           \* where the caller of start_/stop_monitoring stands
    returned          \* the call that returned last: "none", "start", "stop"

monitorVars ==
    <<monitoring, monitor_thread, metrics_history, threads, caller, returned>>

\* PDFReader (pdf_reader.py) and the script test_pdf_reader.py
VARIABLES
    file_path,        \* the file_path argument of read_pdf
    pdf_file,         \* what that path denotes: None when no file exists
                      \* there, else what the two libraries find in the file
    method,           \* the method argument of read_pdf
    read_result,      \* None, or the dict read_pdf returned
    printed           \* None, or what the script printed about the result

readerVars == <<file_path, pdf_file, method, read_result, printed>>

\* the variables of the two other programs
others == <<monitorVars, readerVars>>

vars == <<self, pc, op, x0, T, x_ref, t, states, inputs, ref_horizon, u_opt,
          problem, raised, result, calls, writes, memo, monitorVars,
          readerVars>>

\* ProgramMonitor.__init__, lines 43-45; no call has been made
InitMonitor ==
    /\ monitoring = FALSE
    /\ monitor_thread = None
    /\ metrics_history = <<>>
    /\ threads = <<>>
    /\ caller = "idle"
    /\ returned = "none"

\* PDFReader.__init__ keeps no state of a read; read_pdf has not been called
InitReader ==
    /\ file_path = "test.pdf"
    /\ pdf_file = None
    /\ method = "auto"
    /\ read_result = None
    /\ printed = None

\* a call has ended: it returned, or an exception reached the caller
Ended == {"completed", "failed"}

Init ==
    /\ self \in Controllers
    /\ pc = "idle"
    /\ op = "none"
    /\ x0 = None /\ T = 0 /\ x_ref = None
    /\ t = 0
    /\ states = <<>> /\ inputs = <<>>
    /\ ref_horizon = None /\ u_opt = None
    /\ problem = None /\ raised = None /\ result = None
    /\ calls = <<>> /\ writes = <<>>
    /\ memo = None
    /\ InitMonitor /\ InitReader

\* a solve that writes to the controller: after a successful call the lower
\* input bound is left at zero
CallSolve_WritesBound ==
    /\ pc = "idle"
    /\ \E xi \in XGrid(self.n), ref \in RefWindows(self) :
         \E o \in solve(self, xi, ref) :
            /\ op' = "solve"
            /\ x0' = xi /\ x_ref' = ref /\ T' = 0 /\ t' = 0
            /\ states' = <<>> /\ inputs' = <<>>
            /\ ref_horizon' = None /\ u_opt' = None
            /\ problem' = o.problem
            /\ raised' = o.raised
            /\ result' = o.ret
            /\ pc' = IF o.raised # None THEN "failed" ELSE "completed"
            /\ calls' = <<>> /\ writes' = <<>>
            /\ self' = IF o.raised # None THEN self
                       ELSE [self EXCEPT !.u_min = ZeroVec(self.m)]

\* A direct call solve(xi, ref), lines 41-87.
CallSolve ==
    /\ pc = "idle"
    /\ \E xi \in XGrid(self.n), ref \in RefWindows(self) :
         \E o \in solve(self, xi, ref) :
            /\ op' = "solve"
            /\ x0' = xi /\ x_ref' = ref /\ T' = 0 /\ t' = 0
            /\ states' = <<>> /\ inputs' = <<>>
            /\ ref_horizon' = None /\ u_opt' = None
            /\ problem' = o.problem
            /\ raised' = o.raised
            /\ result' = o.ret
            /\ pc' = IF o.raised # None THEN "failed" ELSE "completed"
            /\ calls' = <<>> /\ writes' = <<>>
    /\ UNCHANGED self

\* simulate(xi, len, ref) is called: lines 101-104 and the loop head.
Simulate ==
    /\ pc = "idle"
    /\ \E xi \in XGrid(self.n), len \in 0..MaxT, ref \in RefTrajectories(self) :
         /\ op' = "simulate"
         /\ x0' = xi /\ T' = len /\ x_ref' = ref
         /\ states' = [NewStates(self, len) EXCEPT ![1] = xi]
         /\ inputs' = NewInputs(self, len)
         /\ writes' = << <<"states", 0>> >>
         /\ t' = 0
         /\ pc' = IF len > 0 THEN "window" ELSE "return"
    /\ ref_horizon' = None /\ u_opt' = None
    /\ problem' = None /\ raised' = None /\ result' = None
    /\ calls' = <<>>
    /\ UNCHANGED self

\* lines 108-115: the reference window of step t.  Indexing the last row of
\* an empty slice (line 113) raises IndexError.
SimWindow ==
    /\ pc = "window"
    /\ IF x_ref # None
       THEN LET slice == RefSlice(self, x_ref, t)
            IN  IF Len(slice) < self.N + 1 /\ Len(slice) = 0
                THEN /\ pc' = "failed"
                     /\ raised' = <<[kind |-> "IndexError", status |-> ""]>>
                     /\ UNCHANGED ref_horizon
                ELSE /\ ref_horizon' = PadWindow(self, slice)
                     /\ pc' = "solve"
                     /\ UNCHANGED raised
       ELSE /\ ref_horizon' = None
            /\ pc' = "solve"
            /\ UNCHANGED raised
    /\ UNCHANGED <<self, op, x0, T, x_ref, t, states, inputs, u_opt, problem,
                   result, calls, writes>>

\* a solve step that masks a failed solve by applying a zero input
SimSolve_Masked ==
    /\ pc = "solve"
    /\ \E o \in solve(self, states[t + 1], ref_horizon) :
         /\ problem' = o.problem
         /\ calls' = Append(calls, [t |-> t, x0 |-> states[t + 1],
                                    x_ref |-> ref_horizon,
                                    status |-> IF o.problem = None THEN ""
                                                ELSE o.problem.status,
                                    ret |-> o.ret])
         /\ u_opt' = IF o.raised # None THEN ZeroVec(self.m) ELSE o.ret[1]
         /\ pc' = "record"
         /\ UNCHANGED raised
    /\ UNCHANGED <<self, op, x0, T, x_ref, t, states, inputs, ref_horizon,
                   result, writes>>

\* a solve step that calls the solver again when the solve has failed
SimSolve_Retry ==
    /\ pc = "solve"
    /\ \E o \in solve(self, states[t + 1], ref_horizon) :
         /\ problem' = o.problem
         /\ calls' = Append(calls, [t |-> t, x0 |-> states[t + 1],
                                    x_ref |-> ref_horizon,
                                    status |-> IF o.problem = None THEN ""
                                                ELSE o.problem.status,
                                    ret |-> o.ret])
         /\ IF o.raised # None
            THEN /\ pc' = "solve"
                 /\ UNCHANGED <<u_opt, raised>>
            ELSE /\ u_opt' = o.ret[1]
                 /\ pc' = "record"
                 /\ UNCHANGED raised
    /\ UNCHANGED <<self, op, x0, T, x_ref, t, states, inputs, ref_horizon,
                   result, writes>>

\* a solve step that falls back to the previous step's input (zero at the
\* first step) when the solve has failed
SimSolve_PreviousInput ==
    /\ pc = "solve"
    /\ \E o \in solve(self, states[t + 1], ref_horizon) :
         /\ problem' = o.problem
         /\ calls' = Append(calls, [t |-> t, x0 |-> states[t + 1],
                                    x_ref |-> ref_horizon,
                                    status |-> IF o.problem = None THEN ""
                                                ELSE o.problem.status,
                                    ret |-> o.ret])
         /\ u_opt' = IF o.raised = None THEN o.ret[1]
                     ELSE IF u_opt = None THEN ZeroVec(self.m) ELSE u_opt
         /\ pc' = "record"
         /\ UNCHANGED raised
    /\ UNCHANGED <<self, op, x0, T, x_ref, t, states, inputs, ref_horizon,
                   result, writes>>

\* a solve that projects the state it is handed onto zero in place, the
\* array row it was handed being the simulator's own
SimSolve_WritesState ==
    /\ pc = "solve"
    /\ \E o \in solve(self, states[t + 1], ref_horizon) :
         /\ problem' = o.problem
         /\ calls' = Append(calls, [t |-> t, x0 |-> states[t + 1],
                                    x_ref |-> ref_horizon,
                                    status |-> IF o.problem = None THEN ""
                                                ELSE o.problem.status,
                                    ret |-> o.ret])
         /\ IF o.raised # None
            THEN /\ raised' = o.raised
                 /\ pc' = "failed"
                 /\ UNCHANGED u_opt
            ELSE /\ u_opt' = o.ret[1]
                 /\ pc' = "record"
                 /\ UNCHANGED raised
    /\ states' = [states EXCEPT ![t + 1] = ZeroVec(self.n)]
    /\ UNCHANGED <<self, op, x0, T, x_ref, t, inputs, ref_horizon,
                   result, writes>>

\* line 117: u_opt, _ = self.solve(states[t], ref_horizon)
SimSolve ==
    /\ pc = "solve"
    /\ \E o \in solve(self, states[t + 1], ref_horizon) :
         /\ problem' = o.problem
         /\ calls' = Append(calls, [t |-> t, x0 |-> states[t + 1],
                                    x_ref |-> ref_horizon,
                                    status |-> IF o.problem = None THEN ""
                                                ELSE o.problem.status,
                                    ret |-> o.ret])
         /\ IF o.raised # None
            THEN /\ raised' = o.raised
                 /\ pc' = "failed"
                 /\ UNCHANGED u_opt
            ELSE /\ u_opt' = o.ret[1]
                 /\ pc' = "record"
                 /\ UNCHANGED raised
    /\ UNCHANGED <<self, op, x0, T, x_ref, t, states, inputs, ref_horizon,
                   result, writes>>

\* a recording step that also keeps the input on the controller as its new
\* upper input bound
SimRecord_WritesBound ==
    /\ pc = "record"
    /\ inputs' = [inputs EXCEPT ![t + 1] = u_opt]
    /\ writes' = Append(writes, <<"inputs", t>>)
    /\ pc' = "advance"
    /\ self' = [self EXCEPT !.u_max = u_opt]
    /\ UNCHANGED <<op, x0, T, x_ref, t, states, ref_horizon, u_opt,
                   problem, raised, result, calls>>

\* line 118: inputs[t] = u_opt
SimRecord ==
    /\ pc = "record"
    /\ inputs' = [inputs EXCEPT ![t + 1] = u_opt]
    /\ writes' = Append(writes, <<"inputs", t>>)
    /\ pc' = "advance"
    /\ UNCHANGED <<self, op, x0, T, x_ref, t, states, ref_horizon, u_opt,
                   problem, raised, result, calls>>

\* a loop that stays on the same step instead of moving to the next one
SimAdvance_SameStep ==
    /\ pc = "advance"
    /\ states' = [states EXCEPT ![t + 2] = StepDynamics(self, states[t + 1], u_opt)]
    /\ writes' = Append(writes, <<"states", t + 1>>)
    /\ IF t + 1 < T
       THEN t' = t /\ pc' = "window"
       ELSE t' = t /\ pc' = "return"
    /\ UNCHANGED <<self, op, x0, T, x_ref, inputs, ref_horizon, u_opt,
                   problem, raised, result, calls>>

\* a state update that overwrites the current state instead of writing
\* the next one
SimAdvance_Overwrites ==
    /\ pc = "advance"
    /\ states' = [states EXCEPT ![t + 1] = StepDynamics(self, states[t + 1], u_opt)]
    /\ writes' = Append(writes, <<"states", t>>)
    /\ IF t + 1 < T
       THEN t' = t + 1 /\ pc' = "window"
       ELSE t' = t /\ pc' = "return"
    /\ UNCHANGED <<self, op, x0, T, x_ref, inputs, ref_horizon, u_opt,
                   problem, raised, result, calls>>

\* line 121 and the loop head of line 106
SimAdvance ==
    /\ pc = "advance"
    /\ states' = [states EXCEPT ![t + 2] = StepDynamics(self, states[t + 1], u_opt)]
    /\ writes' = Append(writes, <<"states", t + 1>>)
    /\ IF t + 1 < T
       THEN t' = t + 1 /\ pc' = "window"
       ELSE t' = t /\ pc' = "return"
    /\ UNCHANGED <<self, op, x0, T, x_ref, inputs, ref_horizon, u_opt,
                   problem, raised, result, calls>>

\* line 123: return states, inputs
SimReturn ==
    /\ pc = "return"
    /\ result' = <<states, inputs>>
    /\ pc' = "completed"
    /\ UNCHANGED <<self, op, x0, T, x_ref, t, states, inputs, ref_horizon,
                   u_opt, problem, raised, calls, writes>>

\* The caller is done with the ended call and is ready to make the next
\* one on the same controller.
NextCall ==
    /\ pc \in Ended
    /\ pc' = "idle"
    /\ op' = "none"
    /\ x0' = None /\ T' = 0 /\ x_ref' = None
    /\ t' = 0
    /\ states' = <<>> /\ inputs' = <<>>
    /\ ref_horizon' = None /\ u_opt' = None
    /\ problem' = None /\ raised' = None /\ result' = None
    /\ calls' = <<>> /\ writes' = <<>>
    /\ UNCHANGED self

\* the calls and their steps; the caller keeps nothing from call to call
Next ==
    \/ CallSolve /\ UNCHANGED <<memo, others>>
    \/ Simulate /\ UNCHANGED <<memo, others>>
    \/ SimWindow /\ UNCHANGED <<memo, others>>
    \/ SimSolve /\ UNCHANGED <<memo, others>>
    \/ SimRecord /\ UNCHANGED <<memo, others>>
    \/ SimAdvance /\ UNCHANGED <<memo, others>>
    \/ SimReturn /\ UNCHANGED <<memo, others>>
    \/ NextCall /\ UNCHANGED <<memo, others>>

Spec == Init /\ [][Next]_vars

\* a step of simulate, lines 106-123
SimStep == SimWindow \/ SimSolve \/ SimRecord \/ SimAdvance \/ SimReturn

\* The runs in which the solver meets its tolerances at every call: a
\* feasible problem ends "optimal", an infeasible one "infeasible".
ExactSolver == problem = None \/ problem.status \in {OPTIMAL, "infeasible"}

NextExact ==
    \/ CallSolve /\ ExactSolver' /\ UNCHANGED <<memo, others>>
    \/ Simulate /\ UNCHANGED <<memo, others>>
    \/ SimWindow /\ UNCHANGED <<memo, others>>
    \/ SimSolve /\ ExactSolver' /\ UNCHANGED <<memo, others>>
    \/ SimRecord /\ UNCHANGED <<memo, others>>
    \/ SimAdvance /\ UNCHANGED <<memo, others>>
    \/ SimReturn /\ UNCHANGED <<memo, others>>
    \/ NextCall /\ UNCHANGED <<memo, others>>

SpecExact == Init /\ [][NextExact]_vars

\* A caller that keeps the outcome of one solve and goes on calling: the
\* first successful direct solve made from the all-ones state is kept, with
\* a note of whether any other call has been made since.
MemoState(ctl) == Ones(1, ctl.n)

SameAsMemo(xi, ref) == memo # None /\ memo.x0 = xi /\ memo.x_ref = ref

Noted == IF memo = None THEN None ELSE [memo EXCEPT !.between = TRUE]

NextHistory ==
    \/ /\ CallSolve
       /\ memo' = IF memo = None
                  THEN IF pc' = "completed" /\ x0' = MemoState(self)
                       THEN [x0 |-> x0', x_ref |-> x_ref', u0 |-> result'[1],
                             between |-> FALSE]
                       ELSE None
                  ELSE IF SameAsMemo(x0', x_ref') THEN memo ELSE Noted
       /\ UNCHANGED others
    \/ Simulate /\ memo' = Noted /\ UNCHANGED others
    \/ SimWindow /\ UNCHANGED <<memo, others>>
    \/ SimSolve /\ UNCHANGED <<memo, others>>
    \/ SimRecord /\ UNCHANGED <<memo, others>>
    \/ SimAdvance /\ UNCHANGED <<memo, others>>
    \/ SimReturn /\ UNCHANGED <<memo, others>>
    \/ NextCall /\ UNCHANGED <<memo, others>>

\* the controllers of horizon 1 are enough for this caller
InitHistory == Init /\ self.N = 1

SpecHistory == InitHistory /\ [][NextHistory]_vars

\* The same program with the constructor called on any arguments, the
\* non-conforming ones included: __init__ (lines 28-39) stores what it is
\* given.
InitAny ==
    /\ self \in Controllers \cup Misconfigured
    /\ pc = "idle"
    /\ op = "none"
    /\ x0 = None /\ T = 0 /\ x_ref = None
    /\ t = 0
    /\ states = <<>> /\ inputs = <<>>
    /\ ref_horizon = None /\ u_opt = None
    /\ problem = None /\ raised = None /\ result = None
    /\ calls = <<>> /\ writes = <<>>
    /\ memo = None
    /\ InitMonitor /\ InitReader

SpecAny == InitAny /\ [][Next]_vars

\* -------------------------------------------------------------- properties
Range(q) == {q[i] : i \in 1..Len(q)}

\* C1: a simulate call that completes returns exactly T+1 states and exactly
\* T inputs, and the first returned state is x0.
C1_SimulateLengths ==
    (op = "simulate" /\ pc = "completed") =>
        /\ Len(result[1]) = T + 1
        /\ Len(result[2]) = T
        /\ result[1][1] = x0

C1_Witness ==
    /\ op = "simulate" /\ pc = "completed"
    /\ T >= 2
    /\ x0 # ZeroVec(self.n)
    /\ Len(result[1]) = T + 1

\* C2: when the solve of step t fails, simulate ends there: nothing was
\* returned, inputs[t] and states[t+1] were never assigned, the failing call
\* is the last solve call and belongs to step t, and the run takes no further
\* step (the only thing that follows is the caller's next call).
C2_AbortState ==
    (op = "simulate" /\ pc = "failed" /\ raised[1].kind = "ValueError") =>
        /\ result = None
        /\ <<"inputs", t>> \notin Range(writes)
        /\ <<"states", t + 1>> \notin Range(writes)
        /\ Len(calls) = t + 1
        /\ \A i \in 1..Len(calls) : calls[i].t = i - 1
        /\ calls[Len(calls)].status # OPTIMAL
        /\ \A i \in 1..(Len(calls) - 1) : calls[i].status = OPTIMAL

C2_FailureAborts ==
    /\ [](C2_AbortState)
    /\ [][(op = "simulate" /\ calls # <<>> /\ calls[Len(calls)].status # OPTIMAL)
            => (pc = "failed" /\ pc' = "idle")]_vars

C2_Witness ==
    /\ op = "simulate" /\ pc = "failed" /\ raised[1].kind = "ValueError"
    /\ t = 1 /\ T = 2
    /\ calls[2].status = "infeasible"

\* C3: solve returns a value only when the solver's status is "optimal"; for
\* any other status it raises the error that carries that status and returns
\* nothing.
C3_SolveOnlyOptimal ==
    (op = "solve" /\ pc \in Ended) =>
        /\ (result # None) <=> (problem.status = OPTIMAL)
        /\ (problem.status = OPTIMAL) => (raised = None /\ pc = "completed")
        /\ (problem.status # OPTIMAL) =>
              /\ raised = <<[kind |-> "ValueError", status |-> problem.status]>>
              /\ pc = "failed"

C3_Witness ==
    /\ op = "solve" /\ pc = "failed"
    /\ problem.status = "optimal_inaccurate"
    /\ problem.u # None
    /\ result = None

\* C4: whenever a reference is supplied, the window step of every step t of
\* the loop (t >= Len(x_ref) included) ends at the solve call with a window
\* of exactly N+1 entries.
C4_WindowAlwaysBuilt ==
    [][(pc = "window" /\ x_ref # None)
         => (pc' = "solve" /\ Len(ref_horizon') = self.N + 1)]_vars

Min(a, b) == IF a < b THEN a ELSE b

\* C5: with a reference of length L supplied, entry k (k in 0..N) of the
\* window passed to solve at step t is x_ref[min(t+k, L-1)].
C5_WindowEntries ==
    (op = "simulate" /\ x_ref # None) =>
        \A i \in 1..Len(calls) :
            /\ Len(calls[i].x_ref) = self.N + 1
            /\ \A k \in 0..self.N :
                 calls[i].x_ref[k + 1]
                    = x_ref[Min(calls[i].t + k, Len(x_ref) - 1) + 1]

\* a window of a later step that starts inside a step reference and runs
\* past its end
C5_Witness ==
    /\ op = "simulate" /\ x_ref # None
    /\ Len(x_ref) = 2 /\ x_ref[1] # x_ref[2]
    /\ self.N = 2
    /\ Len(calls) = 2 /\ calls[2].t = 1
    /\ calls[2].x_ref = <<x_ref[2], x_ref[2], x_ref[2]>>
    /\ calls[1].x_ref = <<x_ref[1], x_ref[2], x_ref[2]>>

\* the solve call (direct, or the latest one of simulate) whose problem is
\* held in the variable problem: its x0 and x_ref arguments
LastX0 == IF op = "solve" THEN x0 ELSE calls[Len(calls)].x0

LastRef == IF op = "solve" THEN x_ref ELSE calls[Len(calls)].x_ref

Solved == problem # None /\ problem.status = OPTIMAL

\* C6: a simulate call without reference passes no reference to any solve;
\* and a solve that received no reference, from simulate or directly, returns
\* a minimiser of the cost against the zero reference of N+1 state vectors.
C6_ZeroReference ==
    /\ (op = "simulate" /\ x_ref = None) =>
          \A i \in 1..Len(calls) : calls[i].x_ref = None
    /\ (Solved /\ LastRef = None) =>
          LET zero == [k \in 1..(self.N + 1) |-> [j \in 1..self.n |-> 0]]
          IN  \A q \in Feasible(self, LastX0) :
                 Cost(self, problem.x, problem.u, zero)
                    <= Cost(self, q.x, q.u, zero)

\* both kinds of call, from a state where the zero reference decides the
\* optimum (the state is not at the origin)
C6_Witness ==
    /\ Solved /\ LastRef = None
    /\ LastX0 # ZeroVec(self.n)
    /\ \E k \in 1..self.N : problem.u[k] # ZeroVec(self.m)
    /\ op = "simulate" /\ Len(calls) = 2

\* C7: at every step whose input has been recorded, the recorded input is the
\* first input of the optimal sequence of the solve called with the recorded
\* state x[t]; and once x[t+1] has been recorded it is A x[t] + B u*[0].
C7_FirstInputApplied ==
    op = "simulate" =>
        /\ (pc \in {"record", "advance"}) =>
              (u_opt = problem.u[1] /\ calls[Len(calls)].ret[1] = problem.u[1])
        /\ \A i \in 1..Len(calls) :
              /\ calls[i].x0 = states[i]
              /\ (<<"inputs", i - 1>> \in Range(writes)) =>
                    inputs[i] = calls[i].ret[1]
              /\ (<<"states", i>> \in Range(writes)) =>
                    states[i + 1] =
                       [r \in 1..self.n |->
                          Dot(self.A[r], states[i]) + Dot(self.B[r], calls[i].ret[1])]

C7_Witness ==
    /\ op = "simulate" /\ pc = "completed" /\ T = 2
    /\ self.n = 2 /\ self.N = 2
    /\ inputs[1] # inputs[2]
    /\ problem.u[1] # problem.u[2]
    /\ states[3] # states[2]

\* C8: after a successful solve every predicted state x*[k], k in 0..N, is
\* componentwise within [x_min, x_max] and every predicted input u*[k], k in
\* 0..N-1, within [u_min, u_max]; so is the returned first input.
C8_WithinBounds ==
    Solved =>
        /\ \A k \in 1..(self.N + 1) : \A i \in 1..self.n :
              self.x_min[i] <= problem.x[k][i] /\ problem.x[k][i] <= self.x_max[i]
        /\ \A k \in 1..self.N : \A j \in 1..self.m :
              self.u_min[j] <= problem.u[k][j] /\ problem.u[k][j] <= self.u_max[j]
        /\ (op = "solve" /\ pc = "completed") =>
              \A j \in 1..self.m :
                 self.u_min[j] <= result[1][j] /\ result[1][j] <= self.u_max[j]

\* a solve whose optimum sits on an input bound and on a state bound
C8_Witness ==
    /\ Solved /\ op = "solve" /\ pc = "completed"
    /\ self.n = 2 /\ self.N = 2
    /\ self.u_min[1] = 0
    /\ problem.x[1] = <<1, -1>>
    /\ result[1][1] = self.u_max[1]
    /\ \E k \in 1..(self.N + 1) : problem.x[k][1] = self.x_max[1]

\* C9: after a successful solve, x*[k+1] = A x*[k] + B u*[k] for every k in
\* 0..N-1, u* being the input sequence of the same solve.
C9_DynamicsConsistent ==
    Solved =>
        \A k \in 1..self.N : \A r \in 1..self.n :
            problem.x[k + 1][r]
               = Dot(self.A[r], problem.x[k]) + Dot(self.B[r], problem.u[k])

C9_Witness ==
    /\ Solved /\ self.n = 2 /\ self.N = 2
    /\ problem.u[1] # ZeroVec(self.m) /\ problem.u[2] # ZeroVec(self.m)
    /\ problem.x[3] # problem.x[1]

\* C10: a successful solve(x0, x_ref) returns a first input of length m and
\* exactly N+1 predicted states, the first of which is x0.
C10_ReturnShape ==
    /\ (op = "solve" /\ pc = "completed") =>
          /\ Len(result[1]) = self.m
          /\ Len(result[2]) = self.N + 1
          /\ \A k \in 1..(self.N + 1) : Len(result[2][k]) = self.n
          /\ result[2][1] = x0
    /\ op = "simulate" =>
          \A i \in 1..Len(calls) :
             calls[i].status = OPTIMAL =>
                /\ Len(calls[i].ret[1]) = self.m
                /\ Len(calls[i].ret[2]) = self.N + 1
                /\ calls[i].ret[2][1] = calls[i].x0

C10_Witness ==
    /\ op = "solve" /\ pc = "completed"
    /\ self.m = 2 /\ x0 # ZeroVec(self.n)
    /\ result[1] # ZeroVec(self.m)
    /\ Len(result[2]) = 2

\* a direct solve call has returned successfully
JustSolved == op = "solve" /\ pc = "completed"

\* the input sequences of length k on the grid
RECURSIVE InputSeqs(_)
InputSeqs(k) ==
    IF k = 0 THEN {<<>>}
    ELSE {Append(q, e) : q \in InputSeqs(k - 1), e \in UGrid(self.m)}

\* the states x[0..Len(useq)] that the dynamics produce from xi under useq
RECURSIVE Rollout(_, _)
Rollout(xi, useq) ==
    IF useq = <<>> THEN <<xi>>
    ELSE <<xi>> \o Rollout([r \in 1..self.n |->
                               Dot(self.A[r], xi) + Dot(self.B[r], Head(useq))],
                           Tail(useq))

InBox(v, lo, hi) == \A i \in 1..Len(v) : lo[i] <= v[i] /\ v[i] <= hi[i]

\* the input sequence useq, with the states xs it drives the plant through,
\* respects the input bounds at every stage and the state bounds at every
\* predicted state
AdmissibleRun(useq, xs) ==
    /\ \A k \in 1..self.N : InBox(useq[k], self.u_min, self.u_max)
    /\ \A k \in 1..(self.N + 1) : InBox(xs[k], self.x_min, self.x_max)

\* the admissible input sequences on the grid from the state xi
Admissible(xi) ==
    {useq \in InputSeqs(self.N) : AdmissibleRun(useq, Rollout(xi, useq))}

\* v' P v
QForm(v, P) == Dot(v, MatVec(P, v))

\* sum_{k=0}^{N-1} [(x[k]-r[k])'Q(x[k]-r[k]) + u[k]'R u[k]]
\*    + (x[N]-r[N])'Q(x[N]-r[N])
J(x, u, r) ==
    SumTo([k \in 1..self.N |->
             QForm(VecSub(x[k], r[k]), self.Q) + QForm(u[k], self.R)], self.N)
    + QForm(VecSub(x[self.N + 1], r[self.N + 1]), self.Q)

\* positive definite (matrices of size 1 and 2)
PosDef(M) ==
    /\ M[1][1] > 0
    /\ Len(M) = 2 => (M[1][2] = M[2][1] /\ M[1][1] * M[2][2] - M[1][2] * M[2][1] > 0)

SeqAdd(a, b) == [k \in 1..Len(a) |-> VecAdd(a[k], b[k])]

Exclusive(ctl) ==
    \/ \E i \in 1..ctl.n : ctl.x_min[i] > ctl.x_max[i]
    \/ \E j \in 1..ctl.m : ctl.u_min[j] > ctl.u_max[j]

\* C12: on a controller whose bounds are mutually exclusive (x_min > x_max
\* or u_min > u_max in some component) every solve call, direct or made by
\* simulate, ends with a status other than optimal and raises the ValueError
\* carrying that status; it returns nothing, and simulate records no input.
C12_ExclusiveAlwaysFails ==
    Exclusive(self) =>
        /\ (op = "solve" /\ pc \in Ended) =>
              /\ pc = "failed"
              /\ NotOptimal(problem.status)
              /\ raised = <<[kind |-> "ValueError", status |-> problem.status]>>
              /\ result = None
        /\ op = "simulate" =>
              /\ \A i \in 1..Len(calls) :
                    NotOptimal(calls[i].status) /\ calls[i].ret = None
              /\ calls # <<>> =>
                    /\ pc = "failed"
                    /\ raised = <<[kind |-> "ValueError",
                                   status |-> calls[Len(calls)].status]>>
              /\ u_opt = None
              /\ \A i \in 1..Len(writes) : writes[i][1] # "inputs"
              /\ inputs = NewInputs(self, T)

\* an empty state box has failed the first solve of a simulate run
C12_Witness ==
    /\ Exclusive(self)
    /\ op = "simulate" /\ pc = "failed" /\ T >= 2
    /\ self.x_min[1] > self.x_max[1]
    /\ Len(calls) = 1 /\ calls[1].status = "infeasible"

\* an empty input box has failed a direct solve
C12_WitnessInputBox ==
    /\ Exclusive(self)
    /\ op = "solve" /\ pc = "failed"
    /\ self.u_min[1] > self.u_max[1]
    /\ problem.status = "infeasible"

\* the dimensions the constructor's arguments must have: A n x n, B n x m,
\* Q n x n, R m x m, state bounds of length n, input bounds of length m
Conforming(ctl) ==
    /\ \A i \in 1..Len(ctl.A) : Len(ctl.A[i]) = Len(ctl.A)
    /\ Len(ctl.B) = Len(ctl.A)
    /\ Len(ctl.Q) = ctl.n /\ \A i \in 1..Len(ctl.Q) : Len(ctl.Q[i]) = ctl.n
    /\ Len(ctl.R) = ctl.m /\ \A i \in 1..Len(ctl.R) : Len(ctl.R[i]) = ctl.m
    /\ Len(ctl.x_min) = ctl.n /\ Len(ctl.x_max) = ctl.n
    /\ Len(ctl.u_min) = ctl.m /\ Len(ctl.u_max) = ctl.m

\* C13: construction rejects non-conforming dimensions, so solve and
\* simulate are only ever called on a controller whose dimensions conform.
C13_NoCallOnMisconfigured == op # "none" => Conforming(self)

\* simulate has ended because the solve of its current step t failed
SolveFailedInRun ==
    /\ op = "simulate" /\ pc = "failed"
    /\ calls # <<>> /\ NotOptimal(calls[Len(calls)].status)

\* C14: when the solve of step t fails in a simulate run, the exception that
\* reaches the caller carries the solver's terminal status and the step t.
C14_FailureCarriesStep ==
    SolveFailedInRun =>
        /\ raised # None
        /\ raised[1].status = calls[Len(calls)].status
        /\ "t" \in DOMAIN raised[1]
        /\ raised[1].t = t

\* What a caller that catches the failure of simulate holds: the exception
\* and the controller.  states and inputs are local variables of simulate
\* (lines 101-102) and are given up with its frame; nothing was returned.
CallerHolds(field, value) ==
    \/ raised # None /\ field \in DOMAIN raised[1] /\ raised[1][field] = value
    \/ field \in DOMAIN self /\ self[field] = value
    \/ result # None /\ value \in Range(result)

\* C15: when simulate aborts because the solve of step t failed, the states
\* x[0..t] and the inputs u[0..t-1] recorded before the abort are available
\* to the caller that catches the failure.
C15_PartialDataAvailable ==
    SolveFailedInRun =>
        /\ CallerHolds("states", SubSeq(states, 1, t + 1))
        /\ CallerHolds("inputs", SubSeq(inputs, 1, t))

\* The phase of a simulate run: Idle before the call, Running(t) inside
\* iteration t of the loop of line 106, Completed once the loop is through
\* (line 123), Failed once an exception has left simulate.
Phase ==
    IF pc = "idle" THEN <<"Idle">>
    ELSE IF pc \in {"window", "solve", "record", "advance"} THEN <<"Running", t>>
    ELSE IF pc \in {"return", "completed"} THEN <<"Completed">>
    ELSE <<"Failed">>

\* the position inside an iteration
Pos == CASE pc = "window" -> 1 [] pc = "solve" -> 2
         [] pc = "record" -> 3 [] pc = "advance" -> 4 [] OTHER -> 0

\* one step of a simulate run, or the step that starts or follows it
C16_Step ==
    /\ (Phase = <<"Idle">> /\ op' = "simulate") =>
          Phase' = IF T' > 0 THEN <<"Running", 0>> ELSE <<"Completed">>
    /\ (op = "simulate" /\ Phase[1] = "Running") =>
          /\ op' = "simulate" /\ T' = T
          /\ \/ Phase' = Phase /\ Pos' = Pos + 1
             \/ Phase' = <<"Running", t + 1>> /\ t + 1 < T
                  /\ Pos = 4 /\ Pos' = 1
             \/ Phase' = <<"Completed">> /\ t + 1 = T /\ Pos = 4
             \/ Phase' = <<"Failed">> /\ Pos \in {1, 2}
          /\ (Pos = 2 /\ NotOptimal(calls'[Len(calls')].status)) =>
                Phase' = <<"Failed">>
    /\ (op = "simulate" /\ Phase \in {<<"Completed">>, <<"Failed">>}) =>
          \/ Phase' = Phase /\ op' = "simulate" /\ pc = "return"
          \/ Phase' = <<"Idle">> /\ op' = "none" /\ pc \in Ended
                /\ calls' = <<>> /\ writes' = <<>>

\* C16: a simulate run goes Idle, Running(0), Running(1), ..., Running(T-1),
\* Completed: inside Running(t) it moves forward through the iteration, the
\* index grows by exactly one from one iteration to the next, and only the
\* last iteration leads to Completed; a failed solve leads from Running(t)
\* to Failed; and a run in Completed or Failed takes no further step: all
\* that follows is the caller's next call, which starts over from Idle.
C16_LinearRun ==
    /\ [](Phase[1] = "Running" => (op = "simulate" /\ t \in 0..(T - 1)))
    /\ [][C16_Step]_vars

\* Failed reached from Running(1) by a failed solve, Running(0) before it
C16_Witness ==
    /\ op = "simulate" /\ Phase = <<"Failed">> /\ T = 2 /\ t = 1
    /\ Len(calls) = 2 /\ ~NotOptimal(calls[1].status)
    /\ NotOptimal(calls[2].status)

\* Completed reached through Running(0) and Running(1)
C16_WitnessCompleted ==
    /\ op = "simulate" /\ pc = "completed" /\ T = 2 /\ t = 1
    /\ Len(calls) = 2

\* the number of steps a simulate run can still take, at most: four for
\* every iteration not yet begun, the rest of the current one, the return
Rank ==
    IF op # "simulate" \/ pc \in Ended THEN 0
    ELSE IF pc = "return" THEN 1
    ELSE 4 * (T - t - 1) + (5 - Pos) + 1

\* C17: every simulate run ends, completed or failed, each solver call
\* returning: while the run has not ended a step of it can be taken (at the
\* solve position that step is the solver call), every step brings the run
\* strictly closer to its end, at most 4 T + 1 steps away at the start; it
\* never makes more than T solver calls, and a completed run has made
\* exactly T, all of them successful.
C17_SimulateTerminates ==
    /\ [](op = "simulate" =>
            /\ Len(calls) <= T
            /\ pc \in {"return", "completed"} =>
                  /\ Len(calls) = T
                  /\ \A i \in 1..T : calls[i].status = OPTIMAL
            /\ Rank \in 0..(4 * T + 1)
            /\ (pc \notin Ended /\ pc # "solve") => ENABLED SimStep)
    /\ [][(op = "simulate" /\ pc \notin Ended) =>
            (op' = "simulate" /\ T' = T /\ Rank' < Rank)]_vars

\* a run of T = 2 steps that has made both solver calls and has ended
C17_Witness ==
    /\ op = "simulate" /\ pc = "completed" /\ T = 2
    /\ Len(calls) = 2 /\ calls[2].t = 1
    /\ x0 # ZeroVec(self.n) /\ x_ref # None

\* the steps whose input has been recorded, in the order of recording
Recorded == SelectSeq(writes, LAMBDA w : w[1] = "inputs")

\* C18: in a simulate run the solver is called at most once per step, in
\* step order, and a solve that did not end optimal is the last call of the
\* run (no retry: the run has failed); every input recorded at an index k
\* was recorded once, and it is the u*[0] returned by the solve of step k,
\* which ended optimal.
C18_OneSolvePerStep ==
    op = "simulate" =>
        /\ \A i \in 1..Len(calls) : calls[i].t = i - 1 /\ calls[i].t <= t
        /\ \A i \in 1..Len(calls) :
              NotOptimal(calls[i].status) =>
                  (i = Len(calls) /\ pc = "failed" /\ calls[i].ret = None)
        /\ \A i \in 1..Len(Recorded) :
              LET k == Recorded[i][2]
              IN  /\ k = i - 1
                  /\ k + 1 <= Len(calls)
                  /\ calls[k + 1].t = k
                  /\ calls[k + 1].status = OPTIMAL
                  /\ inputs[k + 1] = calls[k + 1].ret[1]

\* two inputs recorded, the second one different from the first, and the
\* run goes on
C18_Witness ==
    /\ op = "simulate" /\ pc = "advance" /\ t = 1
    /\ Len(Recorded) = 2
    /\ inputs[1] # inputs[2]
    /\ inputs[2] # ZeroVec(self.m)

\* every entry of the sequence of vectors q is the zero vector
AllZero(q) == \A i \in 1..Len(q) : \A j \in 1..Len(q[i]) : q[i][j] = 0

\* the call starts at rest: x0 = 0, the reference omitted or zero
\* throughout, and the bounds of the controller contain 0
AtRest ==
    /\ x0 = ZeroVec(self.n)
    /\ x_ref = None \/ AllZero(x_ref)
    /\ InBox(ZeroVec(self.n), self.x_min, self.x_max)
    /\ InBox(ZeroVec(self.m), self.u_min, self.u_max)

\* C20: with a solver that meets its tolerances, a solve from x0 = 0 with a
\* zero reference and bounds containing 0 succeeds, and its input sequence
\* and predicted states are all zero and cost zero; a simulate run from
\* x0 = 0 under the same conditions has only such solves, and holds only
\* zero states and zero inputs.
C20_ZeroAtRest ==
    AtRest =>
        /\ (op = "solve" /\ pc \in Ended) =>
              /\ pc = "completed" /\ raised = None
              /\ problem.status = OPTIMAL
              /\ Len(problem.u) = self.N /\ AllZero(problem.u)
              /\ Len(problem.x) = self.N + 1 /\ AllZero(problem.x)
              /\ J(problem.x, problem.u, Zeros(self.N + 1, self.n)) = 0
              /\ result = <<ZeroVec(self.m), Zeros(self.N + 1, self.n)>>
        /\ op = "simulate" =>
              /\ AllZero(states) /\ AllZero(inputs)
              /\ u_opt \in {None, ZeroVec(self.m)}
              /\ \A i \in 1..Len(calls) :
                    /\ calls[i].x0 = ZeroVec(self.n)
                    /\ calls[i].status = OPTIMAL
                    /\ calls[i].ret = <<ZeroVec(self.m), Zeros(self.N + 1, self.n)>>
              /\ raised # None => raised[1].kind = "IndexError"

\* a completed run of two steps from rest on the double integrator, with a
\* zero reference supplied
C20_Witness ==
    /\ AtRest /\ self.n = 2 /\ self.N = 2
    /\ op = "simulate" /\ pc = "completed" /\ T = 2
    /\ x_ref # None
    /\ Len(calls) = 2 /\ AllZero(states)

\* a direct solve from rest
C20_WitnessSolve ==
    /\ AtRest /\ op = "solve" /\ pc = "completed" /\ self.n = 2
    /\ self.x_min[1] = -1

C19_WitnessSolve ==
    /\ memo # None /\ memo.between
    /\ memo.u0 # ZeroVec(self.m)
    /\ op = "solve" /\ pc = "completed" /\ SameAsMemo(x0, x_ref)

\* the fields __init__ gives a controller
ControllerFields ==
    {"A", "B", "Q", "R", "N", "n", "m", "x_min", "x_max", "u_min", "u_max"}

\* the step is a call of solve: a direct one, or the one of a simulate step
SolveStep == (pc = "idle" /\ op' = "solve") \/ pc = "solve"

\* C21: a solve call leaves the controller as it was, with no field added,
\* and leaves its caller's data as they were: across the solve of a simulate
\* step the states array, the reference and the window are unchanged, and
\* the state handed to the solver at step t stays the recorded state x[t]
\* for the rest of the run; a direct solve ends with the arguments it was
\* called with.
C21_SolveNoSideEffects ==
    /\ [](/\ DOMAIN self = ControllerFields
          /\ op = "simulate" =>
                \A i \in 1..Len(calls) :
                    /\ calls[i].x0 = states[calls[i].t + 1]
                    /\ calls[i].x_ref = None \/ x_ref # None
          /\ (op = "solve" /\ pc \in Ended) =>
                /\ x0 \in XGrid(self.n) /\ x_ref \in RefWindows(self)
                /\ result # None => result[2][1] = x0)
    /\ [][SolveStep =>
            /\ self' = self
            /\ pc = "solve" =>
                  /\ states' = states /\ inputs' = inputs
                  /\ x0' = x0 /\ x_ref' = x_ref
                  /\ ref_horizon' = ref_horizon
                  /\ calls'[Len(calls')].x0 = states'[t + 1]
                  /\ calls'[Len(calls')].x_ref = ref_horizon']_vars

\* the second solve of a simulate run has returned; the state handed to the
\* first is not zero and the reference is supplied
C21_Witness ==
    /\ op = "simulate" /\ pc = "record" /\ t = 1
    /\ Len(calls) = 2
    /\ calls[1].x0 # ZeroVec(self.n) /\ calls[1].x0 = states[1]
    /\ x_ref # None

\* C22: no step of any solve or simulate call, successful or failed, and no
\* step between calls changes A, B, Q, R, N or a bound vector of the
\* controller: the controller is in every state one of those constructed.
C22_ControllerImmutable ==
    /\ [](self \in Controllers)
    /\ [][/\ self'.A = self.A /\ self'.B = self.B
          /\ self'.Q = self.Q /\ self'.R = self.R
          /\ self'.N = self.N
          /\ self'.x_min = self.x_min /\ self'.x_max = self.x_max
          /\ self'.u_min = self.u_min /\ self'.u_max = self.u_max]_vars

\* a simulate run that failed at its second step, after a successful first
\* one, on a controller with bounds
C22_Witness ==
    /\ op = "simulate" /\ pc = "failed" /\ t = 1
    /\ Len(Recorded) = 1
    /\ self.x_max = Ones(1, self.n) /\ self.u_max = Ones(1, self.m)

\* C23: an exception that reaches the caller of solve or simulate on a
\* constructed controller is the optimization failure: the ValueError that
\* carries a solver status other than optimal.
C23_OnlyOptimizationFailure ==
    raised # None =>
        /\ raised[1].kind = "ValueError"
        /\ raised[1].status \in {"optimal_inaccurate", "infeasible",
                                 "infeasible_inaccurate", "unbounded"}

\* the entry that the write w = <<array, index>> assigned
Entry(w) == IF w[1] = "states" THEN states[w[2] + 1] ELSE inputs[w[2] + 1]

\* the writes to one array, in order
WritesTo(array) == SelectSeq(writes, LAMBDA w : w[1] = array)

\* C24: during a simulate run the states are recorded at the indices
\* 0, 1, 2, ... and the inputs at 0, 1, 2, ..., each index once and in this
\* order, the input at index k before the state at index k+1 and after the
\* state at index k; and no step changes an entry that has been recorded.
C24_AppendOnly ==
    /\ [](op = "simulate" =>
            /\ \A i \in 1..Len(WritesTo("states")) : WritesTo("states")[i][2] = i - 1
            /\ \A i \in 1..Len(WritesTo("inputs")) : WritesTo("inputs")[i][2] = i - 1
            /\ \A i \in 1..Len(writes) :
                  writes[i] = IF i % 2 = 1 THEN <<"states", (i - 1) \div 2>>
                              ELSE <<"inputs", (i - 2) \div 2>>)
    /\ [][(op = "simulate" /\ op' = "simulate") =>
            /\ SubSeq(writes', 1, Len(writes)) = writes
            /\ \A i \in 1..Len(writes) : Entry(writes[i])' = Entry(writes[i])]_vars

\* three states and two inputs recorded, none of them zero
C24_Witness ==
    /\ op = "simulate" /\ Len(writes) = 5
    /\ \A i \in 1..5 : \E j \in 1..Len(Entry(writes[i])) : Entry(writes[i])[j] # 0

\* C25: in a completed simulate run whose x0 lies within the state bounds
\* every recorded state lies within [x_min, x_max] and every recorded input
\* within [u_min, u_max], and the state recorded at index k+1 is the state
\* x*[1] that the solve of step k predicted.
C25_RunWithinBounds ==
    (op = "simulate" /\ pc = "completed"
       /\ InBox(x0, self.x_min, self.x_max)) =>
        /\ \A i \in 1..(T + 1) : InBox(result[1][i], self.x_min, self.x_max)
        /\ \A i \in 1..T : InBox(result[2][i], self.u_min, self.u_max)
        /\ \A i \in 1..T : result[1][i + 1] = calls[i].ret[2][2]

\* a completed run of two steps on a controller with bounds that ends on a
\* state bound, with an input on its bound
C25_Witness ==
    /\ op = "simulate" /\ pc = "completed" /\ T = 2
    /\ self.x_max = Ones(1, self.n) /\ self.u_max = Ones(1, self.m)
    /\ result[1][3][1] = self.x_max[1]
    /\ result[2][1] = self.u_max

\* the controller was constructed with all four bounds omitted
BoundsOmitted ==
    self = MPCController(self.A, self.B, self.Q, self.R, self.N,
                         None, None, None, None)

Infeasible == {"infeasible", "infeasible_inaccurate"}

\* C26: a controller constructed with all four bounds omitted has minus
\* infinity in every component of x_min and u_min and plus infinity in
\* every component of x_max and u_max, and no solve on it, direct or made by
\* simulate, for any x0 and any reference, ends infeasible.
C26_OmittedBoundsFree ==
    BoundsOmitted =>
        /\ Len(self.x_min) = self.n /\ Len(self.x_max) = self.n
        /\ Len(self.u_min) = self.m /\ Len(self.u_max) = self.m
        /\ \A i \in 1..self.n : self.x_min[i] = -Inf /\ self.x_max[i] = Inf
        /\ \A j \in 1..self.m : self.u_min[j] = -Inf /\ self.u_max[j] = Inf
        /\ problem # None => problem.status \notin Infeasible
        /\ \A i \in 1..Len(calls) : calls[i].status \notin Infeasible
        /\ raised # None =>
              (raised[1].kind = "ValueError" => raised[1].status = "optimal_inaccurate")

\* a run on the double integrator without bounds, from a corner of the
\* grid with a supplied reference, has made two solves
C26_Witness ==
    /\ BoundsOmitted /\ self.n = 2 /\ self.N = 2
    /\ op = "simulate" /\ Len(calls) = 2
    /\ x0 = Ones(MaxX, 2) /\ x_ref # None
    /\ calls[2].status = OPTIMAL

\* C27: when x0 lies outside the state bounds in some component, a direct
\* solve(x0) ends infeasible and raises the ValueError, returning nothing;
\* a simulate run of T >= 1 steps from x0 makes one solve, which fails at
\* step 0, records no input, and leaves states[0] = x0 as it was given.
C27_StartOutsideBoundsFails ==
    (op # "none" /\ ~InBox(x0, self.x_min, self.x_max)) =>
        /\ (op = "solve" /\ pc \in Ended) =>
              /\ pc = "failed" /\ result = None
              /\ problem.status \in Infeasible
              /\ raised = <<[kind |-> "ValueError", status |-> problem.status]>>
        /\ op = "simulate" =>
              /\ states[1] = x0
              /\ Recorded = <<>> /\ u_opt = None
              /\ t = 0 /\ Len(calls) <= 1
              /\ pc # "completed" \/ T = 0
              /\ calls # <<>> =>
                    /\ pc = "failed"
                    /\ calls[1].x0 = x0
                    /\ calls[1].status \in Infeasible /\ calls[1].ret = None
                    /\ raised = <<[kind |-> "ValueError",
                                   status |-> calls[1].status]>>

\* a simulate run from a state outside a non-empty state box has failed at
\* step 0
C27_Witness ==
    /\ op = "simulate" /\ pc = "failed" /\ T = 2 /\ t = 0
    /\ self.x_min = Ones(-1, self.n) /\ self.x_max = Ones(1, self.n)
    /\ self.n = 2 /\ x0[1] = 0 /\ x0[2] = 2
    /\ Len(calls) = 1

\* ---------------------------------------------------------- ProgramMonitor
\* the variables of the controller program
controllerVars ==
    <<self, pc, op, x0, T, x_ref, t, states, inputs, ref_horizon, u_opt,
      problem, raised, result, calls, writes, memo>>

\* no controller has been constructed
NoController ==
    /\ self = None
    /\ pc = "idle"
    /\ op = "none"
    /\ x0 = None /\ T = 0 /\ x_ref = None
    /\ t = 0
    /\ states = <<>> /\ inputs = <<>>
    /\ ref_horizon = None /\ u_opt = None
    /\ problem = None /\ raised = None /\ result = None
    /\ calls = <<>> /\ writes = <<>>
    /\ memo = None

\* collect_metrics, lines 58-71: the dict of one measurement, of which the
\* cpu reading is kept
Measurements == {[cpu_percent |-> c] : c \in 0..1}

\* threading.Thread.is_alive: started and not yet finished
Alive == {i \in DOMAIN threads : threads[i] # "exited"}

\* a start_monitoring without the test of line 202
StartMonitoring_NoGuard ==
    /\ caller = "idle"
    /\ Len(threads) < MaxThreads
    /\ monitoring' = TRUE
    /\ caller' = "start"
    /\ UNCHANGED <<monitor_thread, metrics_history, threads, returned>>

\* start_monitoring, lines 202-206: with monitoring on, a warning and a
\* return; otherwise the flag is set
StartMonitoring ==
    /\ caller = "idle"
    /\ IF monitoring
       THEN /\ returned' = "already_on"
            /\ UNCHANGED <<monitoring, monitor_thread, metrics_history,
                           threads, caller>>
       ELSE /\ Len(threads) < MaxThreads
            /\ monitoring' = TRUE
            /\ caller' = "start"
            /\ UNCHANGED <<monitor_thread, metrics_history, threads,
                           returned>>

\* start_monitoring, lines 207-210: the thread is created, kept in
\* monitor_thread and started at the head of _monitor_loop
StartThread ==
    /\ caller = "start"
    /\ threads' = Append(threads, "test")
    /\ monitor_thread' = <<Len(threads) + 1>>
    /\ caller' = "idle"
    /\ returned' = "started"
    /\ UNCHANGED <<monitoring, metrics_history>>

\* stop_monitoring, lines 214-215: the flag is cleared; with no thread kept
\* the call returns (line 217)
StopMonitoring ==
    /\ caller = "idle"
    /\ monitoring' = FALSE
    /\ IF monitor_thread # None
       THEN caller' = "join" /\ UNCHANGED returned
       ELSE caller' = "idle" /\ returned' = "stopped"
    /\ UNCHANGED <<monitor_thread, metrics_history, threads>>

\* a join that gives up waiting: the call returns whatever the thread does
StopJoin_NoWait ==
    /\ caller = "join"
    /\ caller' = "idle"
    /\ returned' = "stopped"
    /\ UNCHANGED <<monitoring, monitor_thread, metrics_history, threads>>

\* stop_monitoring, lines 216-217: join() has no timeout; it returns once
\* the thread has finished
StopJoin ==
    /\ caller = "join"
    /\ threads[monitor_thread[1]] = "exited"
    /\ caller' = "idle"
    /\ returned' = "stopped"
    /\ UNCHANGED <<monitoring, monitor_thread, metrics_history, threads>>

\* _monitor_loop, line 171: the loop condition reads the flag
LoopTest(i) ==
    /\ threads[i] = "test"
    /\ threads' = [threads EXCEPT
                      ![i] = IF monitoring THEN "body" ELSE "exited"]
    /\ UNCHANGED <<monitoring, monitor_thread, metrics_history, caller,
                   returned>>

\* _monitor_loop, lines 172-196: one pass of the body.  A measurement is
\* appended when the process is found and collect_metrics returns a dict;
\* nothing is appended when the process is not found or collect_metrics
\* returns None (lines 87-89, 195-196); an exception that find_process or
\* collect_metrics lets through (a process whose name psutil reports as
\* None, line 50) ends the thread.  The files written by lines 183-194 are
\* not part of the state.
LoopBody(i) ==
    /\ threads[i] = "body"
    /\ \/ /\ Len(metrics_history) < MaxH
          /\ \E metrics \in Measurements :
                metrics_history' = Append(metrics_history, metrics)
          /\ threads' = [threads EXCEPT ![i] = "sleep"]
       \/ /\ threads' = [threads EXCEPT ![i] = "sleep"]
          /\ UNCHANGED metrics_history
       \/ /\ threads' = [threads EXCEPT ![i] = "exited"]
          /\ UNCHANGED metrics_history
    /\ UNCHANGED <<monitoring, monitor_thread, caller, returned>>

\* _monitor_loop, line 198: time.sleep(self.monitor_interval) returns
LoopSleep(i) ==
    /\ threads[i] = "sleep"
    /\ threads' = [threads EXCEPT ![i] = "test"]
    /\ UNCHANGED <<monitoring, monitor_thread, metrics_history, caller,
                   returned>>

\* a step of some monitor-loop thread
LoopStep ==
    /\ \E i \in DOMAIN threads : LoopTest(i) \/ LoopBody(i) \/ LoopSleep(i)
    /\ UNCHANGED <<controllerVars, readerVars>>

InitMonitorOnly == NoController /\ InitMonitor /\ InitReader

NextMonitor ==
    \/ StartMonitoring /\ UNCHANGED <<controllerVars, readerVars>>
    \/ StartThread /\ UNCHANGED <<controllerVars, readerVars>>
    \/ StopMonitoring /\ UNCHANGED <<controllerVars, readerVars>>
    \/ StopJoin /\ UNCHANGED <<controllerVars, readerVars>>
    \/ \E i \in DOMAIN threads :
          LoopTest(i) /\ UNCHANGED <<controllerVars, readerVars>>
    \/ \E i \in DOMAIN threads :
          LoopBody(i) /\ UNCHANGED <<controllerVars, readerVars>>
    \/ \E i \in DOMAIN threads :
          LoopSleep(i) /\ UNCHANGED <<controllerVars, readerVars>>

\* One caller makes the calls one after another; the threads it starts run
\* beside it.
SpecMonitor == InitMonitorOnly /\ [][NextMonitor]_vars

\* The interpreter keeps scheduling a thread that can run, and every call
\* made by the loop body, the sleep of line 198 included, returns.
SpecMonitorFair == SpecMonitor /\ WF_vars(LoopStep)

\* a step in which the caller makes a start_monitoring call: it goes on to
\* start a thread, or the call returns as a call made with monitoring on
StartStep ==
    /\ caller = "idle"
    /\ \/ caller' = "start"
       \/ returned' = "already_on" /\ returned # "already_on"

\* C28: with start_monitoring and stop_monitoring called one after another
\* by one caller, at most one monitor-loop thread is alive in every state;
\* and a start_monitoring call made while monitoring is on returns without
\* starting a thread and leaves monitoring, monitor_thread, metrics_history
\* and the threads as they are.
C28_OneMonitorThread ==
    /\ [](Cardinality(Alive) <= 1)
    /\ [][(StartStep /\ monitoring) =>
             /\ caller' = "idle"
             /\ monitoring' = monitoring
             /\ monitor_thread' = monitor_thread
             /\ metrics_history' = metrics_history
             /\ threads' = threads]_vars

\* a second thread runs after the first was stopped, and a further start
\* call has returned as made with monitoring on
C28_Witness ==
    /\ returned = "already_on"
    /\ Len(threads) = 2
    /\ Alive = {2}
    /\ monitor_thread = <<2>>

\* stop_monitoring has been called and the thread it waits for is running
StopPending ==
    /\ caller = "join"
    /\ monitor_thread[1] \in Alive

\* the thread kept in monitor_thread has left _monitor_loop
LoopExited ==
    /\ monitor_thread # None
    /\ threads[monitor_thread[1]] = "exited"

\* C29: once stop_monitoring has been called on a running monitor the
\* monitor loop eventually exits; stop_monitoring returns only in a state
\* in which the loop has exited; and once stop_monitoring has returned, no
\* entry is appended to metrics_history for as long as no other call has
\* returned.
C29_StopWaitsForLoop ==
    /\ StopPending ~> LoopExited
    /\ [][(caller = "join" /\ caller' = "idle") => LoopExited]_vars
    /\ [][(caller = "idle" /\ returned = "stopped" /\ returned' = "stopped")
             => metrics_history' = metrics_history]_vars

\* stop_monitoring has been called while the loop is in its body, after a
\* first entry was appended: the pass under way may still append
C29_Witness ==
    /\ StopPending
    /\ threads[monitor_thread[1]] = "body"
    /\ Len(metrics_history) = 1

\* --------------------------------------------------------------- PDFReader
\* A str is the tuple of its characters; "" is the empty tuple.
Whitespace == {" ", "\n"}

\* a strip that removes nothing
strip_Nothing(str) == str

\* str.strip(): the leading and the trailing whitespace are removed
RECURSIVE strip(_)
strip(str) ==
    IF Len(str) = 0 THEN str
    ELSE IF Head(str) \in Whitespace THEN strip(Tail(str))
    ELSE IF str[Len(str)] \in Whitespace
         THEN strip(SubSeq(str, 1, Len(str) - 1))
    ELSE str

\* sep.join(parts)
RECURSIVE join(_, _)
join(sep, parts) ==
    IF Len(parts) = 0 THEN <<>>
    ELSE IF Len(parts) = 1 THEN parts[1]
    ELSE parts[1] \o sep \o join(sep, Tail(parts))

\* the concatenation of the strings of a tuple
RECURSIVE Concat(_)
Concat(parts) ==
    IF Len(parts) = 0 THEN <<>> ELSE Head(parts) \o Concat(Tail(parts))

\* lines 50-53: the text of one table: every row joined by " | " (a cell
\* that is None or empty gives "") and ended by a newline, then a newline
TableText(table) ==
    Concat([r \in 1..Len(table) |->
              join(<<" ", "|", " ">>, table[r]) \o <<"\n">>]) \o <<"\n">>

\* lines 44-53: what one page adds to the text
PlumberPage(page) ==
    (IF Len(page.text) > 0 THEN page.text \o <<"\n">> ELSE <<>>)
    \o Concat([k \in 1..Len(page.tables) |-> TableText(page.tables[k])])

\* read_pdf_with_pdfplumber: "" when the library raises (lines 56-58)
read_pdf_with_pdfplumber(file) ==
    IF ~file.plumber_opens THEN <<>>
    ELSE Concat([k \in 1..Len(file.pages) |-> PlumberPage(file.pages[k])])

\* read_pdf_with_pypdf2: every page's text and a newline (line 31); "" when
\* the library raises or a page's extract_text gives no str (lines 34-36)
read_pdf_with_pypdf2(file) ==
    IF ~file.pypdf2_opens THEN <<>>
    ELSE IF \E k \in 1..Len(file.pages) : file.pages[k].pypdf2.raises
    THEN <<>>
    ELSE Concat([k \in 1..Len(file.pages) |->
                   file.pages[k].pypdf2.text \o <<"\n">>])

\* info.get(key, 'N/A'), lines 74-80
InfoGet(info, key) == IF key \in DOMAIN info THEN info[key] ELSE "N/A"

\* extract_metadata: {} when PyPDF2 raises (lines 84-86)
extract_metadata(file) ==
    IF ~file.pypdf2_opens THEN <<>>
    ELSE IF file.info = None
    THEN [pages |-> Len(file.pages), encrypted |-> file.encrypted]
    ELSE [pages |-> Len(file.pages), encrypted |-> file.encrypted,
          title |-> InfoGet(file.info, "/Title"),
          author |-> InfoGet(file.info, "/Author"),
          subject |-> InfoGet(file.info, "/Subject"),
          creator |-> InfoGet(file.info, "/Creator"),
          producer |-> InfoGet(file.info, "/Producer"),
          creation_date |-> InfoGet(file.info, "/CreationDate"),
          modification_date |-> InfoGet(file.info, "/ModDate")]

\* read_pdf, lines 99-133; file is what os.path.exists and the libraries
\* find at path
read_pdf(path, file, meth) ==
    IF file = None
    THEN [status |-> "error", message |-> "File not found"]
    ELSE LET plumber == read_pdf_with_pdfplumber(file)
             fromPlumber == Len(strip(plumber)) > 0
             text == IF meth = "pypdf2" THEN read_pdf_with_pypdf2(file)
                     ELSE IF meth = "pdfplumber" THEN plumber
                     ELSE IF fromPlumber THEN plumber
                     ELSE read_pdf_with_pypdf2(file)
             used == IF meth \in {"pypdf2", "pdfplumber"} THEN meth
                     ELSE IF fromPlumber THEN "pdfplumber"
                     ELSE "pypdf2"
         IN  IF Len(strip(text)) = 0
             THEN [status |-> "warning", file_path |-> path, text |-> text,
                   metadata |-> extract_metadata(file), method_used |-> used,
                   message |-> "No text extracted from PDF"]
             ELSE [status |-> "success", file_path |-> path, text |-> text,
                   metadata |-> extract_metadata(file), method_used |-> used]

\* what pdfplumber's page.extract_text() gives: None or "", or a str
PlumberTexts == {<<>>, <<" ">>, <<"a">>}

\* what page.extract_tables() gives: no table; one row with one empty
\* cell; one row with two empty cells; one row with one filled cell
TableLists ==
    {<<>>, << << <<None>> >> >>, << << <<None, None>> >> >>,
     << << << <<"a">> >> >> >>}

\* what PyPDF2's page.extract_text() does: it raises or gives no str, or
\* it gives a str
PyPDF2Texts ==
    {[raises |-> TRUE, text |-> <<>>]}
    \cup {[raises |-> FALSE, text |-> txt] : txt \in {<<>>, <<" ">>, <<"a">>}}

Pages == [text : PlumberTexts, tables : TableLists, pypdf2 : PyPDF2Texts]

\* the document information PyPDF2 reports: none, or a title
Infos == {None, [key \in {"/Title"} |-> "T"]}

\* the files a path can denote
Files ==
    [plumber_opens : BOOLEAN, pypdf2_opens : BOOLEAN, encrypted : BOOLEAN,
     info : Infos,
     pages : UNION {[1..k -> Pages] : k \in 0..MaxPages}]

Paths == {"test.pdf", "document.pdf"}

Methods == {"auto", "pypdf2", "pdfplumber", "other"}

\* a call of read_pdf, as on line 19 of the script (method 'auto') or with
\* a method given
ReadPdf ==
    /\ read_result = None
    /\ \E path \in Paths, file \in {None} \cup Files, meth \in Methods :
          /\ file_path' = path
          /\ pdf_file' = file
          /\ method' = meth
          /\ read_result' = read_pdf(path, file, meth)
    /\ printed' = None

\* test_pdf_reader.py, lines 21-34: what the script prints for the result
\* of its call
Report ==
    /\ read_result # None
    /\ method = "auto"
    /\ printed = None
    /\ printed' =
          IF read_result.status = "success"
          THEN [line |-> "Success using", method_used |-> read_result.method_used,
                total_characters |-> Len(read_result.text)]
          ELSE [line |-> "Error",
                message |-> IF "message" \in DOMAIN read_result
                            THEN read_result.message
                            ELSE "Failed to read PDF"]
    /\ UNCHANGED <<file_path, pdf_file, method, read_result>>

\* the caller is done with the result
NextRead ==
    /\ read_result # None
    /\ file_path' = "test.pdf"
    /\ pdf_file' = None
    /\ method' = "auto"
    /\ read_result' = None
    /\ printed' = None

InitReaderOnly == NoController /\ InitMonitor /\ InitReader

NextReader ==
    \/ ReadPdf /\ UNCHANGED <<controllerVars, monitorVars>>
    \/ Report /\ UNCHANGED <<controllerVars, monitorVars>>
    \/ NextRead /\ UNCHANGED <<controllerVars, monitorVars>>

SpecReader == InitReaderOnly /\ [][NextReader]_vars

\* a str with a character that is not whitespace
NonBlank(str) == \E k \in 1..Len(str) : str[k] \notin Whitespace

\* C30: the dict returned by read_pdf has status 'error' exactly when no
\* file exists at the path, and then a message; for an existing file it has
\* the keys text, metadata and method_used, status 'success' exactly when
\* the text has a non-whitespace character, and status 'warning' with a
\* message otherwise; every result whose status is not 'success' has a
\* message, so the script never prints its fallback message; with method
\* 'auto', method_used is 'pdfplumber' when the text pdfplumber yields is
\* non-blank and 'pypdf2' otherwise.
C30_ReadPdfStatus ==
    read_result # None =>
        LET keys == DOMAIN read_result
        IN  /\ (read_result.status = "error") <=> (pdf_file = None)
            /\ read_result.status = "error" => "message" \in keys
            /\ pdf_file # None =>
                  /\ {"text", "metadata", "method_used"} \subseteq keys
                  /\ (read_result.status = "success")
                        <=> NonBlank(read_result.text)
                  /\ ~NonBlank(read_result.text) =>
                        read_result.status = "warning" /\ "message" \in keys
            /\ read_result.status # "success" => "message" \in keys
            /\ (printed # None /\ printed.line = "Error") =>
                  printed.message = read_result.message
            /\ (pdf_file # None /\ method = "auto") =>
                  read_result.method_used =
                      IF NonBlank(read_pdf_with_pdfplumber(pdf_file))
                      THEN "pdfplumber" ELSE "pypdf2"

\* an 'auto' read in which pdfplumber yields only whitespace and PyPDF2
\* yields text, reported by the script as a success
C30_Witness ==
    /\ read_result # None /\ pdf_file # None
    /\ method = "auto"
    /\ Len(read_pdf_with_pdfplumber(pdf_file)) > 0
    /\ read_result.status = "success"
    /\ read_result.method_used = "pypdf2"
    /\ printed # None

\* an existing file from which neither library extracts more than
\* whitespace, reported by the script with the warning's message
C30_WitnessWarning ==
    /\ read_result # None /\ pdf_file # None
    /\ Len(read_result.text) > 0
    /\ read_result.status = "warning"
    /\ printed # None

\* a path at which no file exists
C30_WitnessMissing ==
    /\ read_result # None /\ pdf_file = None
    /\ printed # None
====
